---- MODULE Spec2Model ----
(***************************************************************************)
(* Weather_App (src/main.py): password hashing with a legacy path, the     *)
(* unsigned base64/JSON session token, the staleness policy and the        *)
(* single-city and batch weather refresh over the city store.              *)
(*                                                                         *)
(* Time is in whole seconds.  Strings that the program only compares are   *)
(* kept as TLA+ strings; strings that the program parses (the token) are   *)
(* kept as the structure the parse recovers.                               *)
(***************************************************************************)
EXTENDS Integers, Sequences, FiniteSets, TLC

VARIABLES
    now,      \* wall clock in seconds: time.time() and datetime.utcnow()
    ticks,    \* number of clock advances so far (bounds the clock)
    users,    \* table users: email -> row
    cities,   \* table cities: id -> row
    procs,    \* the request handlers suspended at an await, one per slot
    resp,     \* the response of the request that ended in the last step, if any
    held,     \* the cookie a client holds: the token string, how it came to be
              \* and whether the client kept it through a logout
    decoded,  \* the last decode_token call: its input, time and outcome
    stale,    \* the last can_update_city call: its input and outcome
    call      \* the last call of fetch_weather_for_coordinates or verify_password

vars == <<now, ticks, users, cities, procs, resp, held, decoded, stale, call>>

(***************************************************************************)
(* Program constants                                                       *)
(***************************************************************************)
ACCESS_TOKEN_EXPIRE_MINUTES == 30
UPDATE_INTERVAL_MINUTES == 15

(***************************************************************************)
(* Bounds of the model                                                     *)
(***************************************************************************)
MaxTicks == 3
MaxCityTicks == 1
MaxAuthTicks == 2

\* the clock advances by one second, by one second short of the refresh
\* interval, or by the refresh interval (two of which make the token lifetime)
TickSteps == {1, 899, 900}

(***************************************************************************)
(* Python values: None, numbers, strings, datetimes, lists and dicts.      *)
(* Every value is a record of the same shape so that any two can be        *)
(* compared.  A list is keyed by its indices written as strings.           *)
(***************************************************************************)
None == [t |-> "none", n |-> 0, s |-> "", f |-> <<>>]
Num(n) == [t |-> "num", n |-> n, s |-> "", f |-> <<>>]
Str(s) == [t |-> "str", n |-> 0, s |-> s, f |-> <<>>]
DateTime(n) == [t |-> "datetime", n |-> n, s |-> "", f |-> <<>>]
\* the string that datetime n prints as in ISO format
IsoStr(n) == [t |-> "str", n |-> n, s |-> "iso", f |-> <<>>]
Dict(f) == [t |-> "dict", n |-> 0, s |-> "", f |-> f]
List(f) == [t |-> "list", n |-> 0, s |-> "", f |-> f]

\* Python truthiness of a value (`if not x`)
Truthy(v) ==
    CASE v.t = "none" -> FALSE
      [] v.t = "num" -> v.n # 0
      [] v.t = "str" -> v.s # ""
      [] v.t \in {"dict", "list"} -> DOMAIN v.f # {}
      [] OTHER -> TRUE

\* the outcome of a piece of code: a returned value or a raised exception
Return(v) == [exc |-> FALSE, val |-> v]
Raise == [exc |-> TRUE, val |-> None]

(***************************************************************************)
(* Passwords (src/main.py 148-185).  A digest is kept as the scheme and    *)
(* the inputs that produced it: two digests are equal exactly when scheme, *)
(* password and salt are (the hash functions are taken collision free).    *)
(***************************************************************************)
Passwords == {"test123", "pw1"}
Salts == {"s1", "s2"}

EmptyDigest == [alg |-> "", p |-> "", salt |-> ""]
sha256(password) == [alg |-> "sha256", p |-> password, salt |-> ""]
pbkdf2(password, salt) == [alg |-> "pbkdf2", p |-> password, salt |-> salt]

hash_password(password, salt) ==
    IF salt = "" THEN sha256(password)
    ELSE pbkdf2(password, salt)

\* a verification that always takes the legacy path, whatever the salt
verify_password_unsalted(password, salt, stored_hash) ==
    IF stored_hash = EmptyDigest THEN FALSE
    ELSE sha256(password) = stored_hash

verify_password(password, salt, stored_hash) ==
    IF stored_hash = EmptyDigest THEN FALSE
    ELSE IF salt = "" THEN sha256(password) = stored_hash
    ELSE hash_password(password, salt) = stored_hash

(***************************************************************************)
(* SpecVerify: verify_password applied to every password, salt and stored  *)
(* digest drawn from the sets below; the stored digest is empty or a       *)
(* digest some password has under either scheme.                           *)
(***************************************************************************)
VerifyPasswords == {"", "test123", "pw1", "pw2"}
VerifySalts == {""} \cup Salts
VerifyDigests ==
    {EmptyDigest}
    \cup { hash_password(p, s) : p \in VerifyPasswords, s \in VerifySalts }

NotVerified(password, salt, stored_hash) ==
    [fn |-> "verify", done |-> FALSE, password |-> password, salt |-> salt,
     stored_hash |-> stored_hash, out |-> FALSE]

Verify ==
    /\ call.fn = "verify"
    /\ ~call.done
    /\ call' = [call EXCEPT
                  !.done = TRUE,
                  !.out = verify_password(call.password, call.salt, call.stored_hash)]
    /\ UNCHANGED <<now, ticks, users, cities, procs, resp, held, decoded, stale>>

InitVerify ==
    /\ now = 0
    /\ ticks = 0
    /\ users = <<>>
    /\ cities = <<>>
    /\ procs = <<>>
    /\ resp = <<>>
    /\ held = <<>>
    /\ decoded = <<>>
    /\ stale = <<>>
    /\ call \in { NotVerified(p, s, d) :
                  p \in VerifyPasswords, s \in VerifySalts, d \in VerifyDigests }

NextVerify == Verify

SpecVerify == InitVerify /\ [][NextVerify]_vars

(***************************************************************************)
(* Session tokens (src/main.py 97-144).  A token string is "", a string    *)
(* that base64 rejects, or the base64 text of some text; a text is either  *)
(* not JSON or the JSON text of a value.                                   *)
(***************************************************************************)
JsonText(v) == [json |-> TRUE, v |-> v]
NotJson == [json |-> FALSE, v |-> None]

EmptyToken == [k |-> "empty", text |-> NotJson]
GarbageToken == [k |-> "garbage", text |-> NotJson]
AbsentCookie == [k |-> "absent", text |-> NotJson]

b64encode(text) == [k |-> "b64", text |-> text]
b64decode(token) == IF token.k = "b64" THEN Return(token.text) ELSE Raise

\* json.dumps after the datetime loop: every value left is JSON native
json_dumps(v) == JsonText(v)
json_loads(text) == IF text.json THEN Return(text.v) ELSE Raise

\* lines 109-111: datetime values become their ISO text
isoformat(v) == IF v.t = "datetime" THEN IsoStr(v.n) ELSE v

create_access_token_short(data, clock) ==
    LET expire == clock + ACCESS_TOKEN_EXPIRE_MINUTES
        data_copy == [k \in DOMAIN data.f \cup {"exp"} |->
                         IF k = "exp" THEN Num(expire) ELSE isoformat(data.f[k])]
    IN b64encode(json_dumps(Dict(data_copy)))

create_access_token(data, clock) ==
    LET expire == clock + (ACCESS_TOKEN_EXPIRE_MINUTES * 60)
        data_copy == [k \in DOMAIN data.f \cup {"exp"} |->
                         IF k = "exp" THEN Num(expire) ELSE isoformat(data.f[k])]
    IN b64encode(json_dumps(Dict(data_copy)))

\* `"exp" in data`: key of a dict, element of a list, substring of a string;
\* any other value raises TypeError
HasExp(data) ==
    CASE data.t = "dict" -> Return("exp" \in DOMAIN data.f)
      [] data.t = "list" -> Return(\E i \in DOMAIN data.f : data.f[i] = Str("exp"))
      [] data.t = "str" -> Return(data.s \in {"exp", "expired"})
      [] OTHER -> Raise

\* an expiry test that forgets the expiry once it is older than the refresh
\* interval
ExpBefore_window(data, clock) ==
    IF data.t # "dict" THEN Raise
    ELSE IF data.f["exp"].t # "num" THEN Raise
    ELSE Return(data.f["exp"].n < clock /\ clock - data.f["exp"].n < 900)

\* `data["exp"] < time.time()`: only a dict can be indexed by "exp", only a
\* number can be compared with the clock
ExpBefore(data, clock) ==
    IF data.t # "dict" THEN Raise
    ELSE IF data.f["exp"].t # "num" THEN Raise
    ELSE Return(data.f["exp"].n < clock)

\* lines 131-140, the body of the try block
decode_try(token, clock) ==
    LET raw == b64decode(token) IN
    IF raw.exc THEN Raise ELSE
    LET parsed == json_loads(raw.val) IN
    IF parsed.exc THEN Raise ELSE
    LET data == parsed.val
        has == HasExp(data) IN
    IF has.exc THEN Raise ELSE
    IF has.val
    THEN LET lt == ExpBefore(data, clock) IN
         IF lt.exc THEN Raise
         ELSE IF lt.val THEN Return(None) ELSE Return(data)
    ELSE Return(data)

decode_token(token, clock) ==
    IF token.k = "empty" THEN Return(None)
    ELSE LET r == decode_try(token, clock) IN
         IF r.exc THEN Return(None) ELSE r

(***************************************************************************)
(* Staleness policy (src/main.py 289-293)                                  *)
(***************************************************************************)
\* total_seconds() / 60 >= UPDATE_INTERVAL_MINUTES is a comparison of reals;
\* over whole seconds it is the comparison of the seconds with 60 times the
\* interval
can_update_city_strict(city, clock) ==
    IF city.updated_at.t = "none" THEN TRUE
    ELSE clock - city.updated_at.n > UPDATE_INTERVAL_MINUTES * 60

can_update_city(city, clock) ==
    IF city.updated_at.t = "none" THEN TRUE
    ELSE clock - city.updated_at.n >= UPDATE_INTERVAL_MINUTES * 60

(***************************************************************************)
(* The clock                                                               *)
(***************************************************************************)
Tick(d) ==
    /\ ticks < MaxTicks
    /\ now' = now + d
    /\ ticks' = ticks + 1
    /\ UNCHANGED <<users, cities, procs, resp, held, decoded, stale, call>>

(***************************************************************************)
(* States of the parts a specification leaves alone                        *)
(***************************************************************************)
NoCookie == [token |-> AbsentCookie, issued |-> FALSE, logged_out |-> FALSE,
             claims |-> None, t0 |-> 0]
NotDecoded == [called |-> FALSE, token |-> EmptyToken, at |-> 0, out |-> Return(None)]
NotChecked == [called |-> FALSE, updated_at |-> None, at |-> 0, out |-> FALSE]
NoCall == [fn |-> ""]

(***************************************************************************)
(* SpecToken: a client obtains a token from create_access_token or makes   *)
(* up a token string, time passes, and decode_token is applied to it.      *)
(***************************************************************************)
\* the dicts handed to create_access_token: the claims register and login
\* build (lines 418-423, 516-521), the same with created_at left a datetime,
\* claims that already carry "exp", and the empty dict
AppClaims(email, id, username, clock) ==
    Dict([k \in {"sub", "user_id", "username", "created_at"} |->
            CASE k = "sub" -> Str(email)
              [] k = "user_id" -> Num(id)
              [] k = "username" -> Str(username)
              [] OTHER -> IsoStr(clock)])

ClaimsInputs(clock) ==
    { AppClaims("test@test.com", 1, "testuser", clock),
      Dict([k \in {"sub", "created_at"} |->
              IF k = "sub" THEN Str("test@test.com") ELSE DateTime(clock)]),
      Dict([k \in {"sub", "exp"} |->
              IF k = "sub" THEN Str("test@test.com") ELSE Num(0)]),
      Dict(<<>>) }

\* JSON values a client can put in a token of its own making
ForgedValues(clock) ==
    { None, Num(1), Str("abc"), Str("exp"),
      List(<<>>), List([i \in {"0"} |-> Num(1)]), List([i \in {"0"} |-> Str("exp")]),
      Dict(<<>>),
      Dict([k \in {"sub"} |-> Str("test@test.com")]),
      Dict([k \in {"sub", "exp"} |-> IF k = "sub" THEN Str("test@test.com") ELSE Str("abc")]),
      Dict([k \in {"sub", "exp"} |-> IF k = "sub" THEN Str("test@test.com") ELSE None]) }
    \cup { Dict([k \in {"sub", "exp"} |->
                   IF k = "sub" THEN Str("test@test.com") ELSE Num(e)]) :
           e \in {clock - 1, clock, clock + 1} }

TokenInputs(clock) ==
    {EmptyToken, GarbageToken, b64encode(NotJson)}
    \cup { b64encode(JsonText(v)) : v \in ForgedValues(clock) }

TkIssue(c) ==
    /\ held' = [token |-> create_access_token(c, now),
                issued |-> TRUE, logged_out |-> FALSE,
                claims |-> c, t0 |-> now]
    /\ decoded' = NotDecoded
    /\ UNCHANGED <<now, ticks, users, cities, procs, resp, stale, call>>

TkPresent(t) ==
    /\ held' = [token |-> t, issued |-> FALSE, logged_out |-> FALSE,
                claims |-> None, t0 |-> 0]
    /\ decoded' = NotDecoded
    /\ UNCHANGED <<now, ticks, users, cities, procs, resp, stale, call>>

TkDecode ==
    /\ held.token # AbsentCookie
    /\ decoded' = [called |-> TRUE, token |-> held.token, at |-> now,
                   out |-> decode_token(held.token, now)]
    /\ UNCHANGED <<now, ticks, users, cities, procs, resp, held, stale, call>>

InitToken ==
    /\ now = 0
    /\ ticks = 0
    /\ users = <<>>
    /\ cities = <<>>
    /\ procs = <<>>
    /\ resp = <<>>
    /\ held = NoCookie
    /\ decoded = NotDecoded
    /\ stale = NotChecked
    /\ call = NoCall

NextToken ==
    \/ \E c \in ClaimsInputs(now) : TkIssue(c)
    \/ \E t \in TokenInputs(now) : TkPresent(t)
    \/ TkDecode
    \/ \E d \in TickSteps : Tick(d)

SpecToken == InitToken /\ [][NextToken]_vars

(***************************************************************************)
(* SpecStale: can_update_city applied to every pair of a last update and   *)
(* a clock value drawn from StaleTimes.                                    *)
(***************************************************************************)
StaleTimes == {0, 1, 60, 840, 899, 900, 901, 1800}

CheckStale ==
    /\ ~stale.called
    /\ stale' = [stale EXCEPT !.called = TRUE, !.at = now,
                 !.out = can_update_city([updated_at |-> stale.updated_at], now)]
    /\ UNCHANGED <<now, ticks, users, cities, procs, resp, held, decoded, call>>

InitStale ==
    /\ now \in StaleTimes
    /\ ticks = 0
    /\ users = <<>>
    /\ cities = <<>>
    /\ procs = <<>>
    /\ resp = <<>>
    /\ held = NoCookie
    /\ decoded = NotDecoded
    /\ stale \in { [NotChecked EXCEPT !.updated_at = u] :
                   u \in {None} \cup { DateTime(t) : t \in StaleTimes } }
    /\ call = NoCall

NextStale == CheckStale

SpecStale == InitStale /\ [][NextStale]_vars

(***************************************************************************)
(* The user store and the authentication handlers (src/main.py 305-333,    *)
(* 373-564, 722-742).  users maps the emails that have a row to the row.   *)
(***************************************************************************)
Emails == {"test@test.com", "old@x.com", "new@x.com"}
Usernames == {"testuser", "newuser"}

NoUser == [id |-> 0, email |-> "", username |-> "",
           hashed_password |-> EmptyDigest, salt |-> ""]

UserRow(id, email, username, hashed_password, salt) ==
    [id |-> id, email |-> email, username |-> username,
     hashed_password |-> hashed_password, salt |-> salt]

\* the id the table gives a new row: one more than the largest id
NextUserId(table) ==
    IF DOMAIN table = {} THEN 1
    ELSE (CHOOSE m \in {table[e].id : e \in DOMAIN table} :
             \A e \in DOMAIN table : table[e].id <= m) + 1

AddUser(table, row) ==
    [e \in DOMAIN table \cup {row.email} |-> IF e = row.email THEN row ELSE table[e]]

\* db.query(User).filter(User.email == email).first()
UserByEmail(table, email) ==
    IF email \in DOMAIN table THEN table[email] ELSE NoUser

\* a resolution that consults a record of the logout besides the token, the
\* user table and the clock
get_current_user_session(token, table, clock) ==
    IF held.logged_out THEN Return(NoUser) ELSE
    IF token.k \in {"absent", "empty"} THEN Return(NoUser) ELSE
    LET payload == decode_token(token, clock).val IN
    IF ~Truthy(payload) THEN Return(NoUser) ELSE
    IF payload.t # "dict" THEN [exc |-> TRUE, val |-> NoUser] ELSE
    LET email == IF "sub" \in DOMAIN payload.f THEN payload.f["sub"] ELSE None IN
    IF ~Truthy(email) THEN Return(NoUser) ELSE
    IF email.t \in {"list", "dict"} THEN [exc |-> TRUE, val |-> NoUser] ELSE
    IF email.t = "str" /\ email.s # "iso" THEN Return(UserByEmail(table, email.s))
    ELSE Return(NoUser)

\* lines 305-333: the user the access_token cookie resolves to, NoUser for
\* None, or the exception that leaves the function
get_current_user(token, table, clock) ==
    IF token.k \in {"absent", "empty"} THEN Return(NoUser) ELSE
    LET payload == decode_token(token, clock).val IN
    IF ~Truthy(payload) THEN Return(NoUser) ELSE
    \* payload.get: only a dict has it
    IF payload.t # "dict" THEN [exc |-> TRUE, val |-> NoUser] ELSE
    LET email == IF "sub" \in DOMAIN payload.f THEN payload.f["sub"] ELSE None IN
    IF ~Truthy(email) THEN Return(NoUser) ELSE
    \* a list or dict cannot be bound as a query parameter
    IF email.t \in {"list", "dict"} THEN [exc |-> TRUE, val |-> NoUser] ELSE
    IF email.t = "str" /\ email.s # "iso" THEN Return(UserByEmail(table, email.s))
    ELSE Return(NoUser)

\* lines 722-742: the test user is created unless its email has a row
on_startup(table, salt) ==
    IF "test@test.com" \in DOMAIN table THEN table
    ELSE AddUser(table, UserRow(NextUserId(table), "test@test.com", "testuser",
                                hash_password("test123", salt), salt))

\* the rows a database from before the salt column holds after the migration
\* (src/app/migrate_db.py 40-52): an empty salt and an unsalted digest
LegacyTables ==
    {<<>>} \cup
    { [e \in {"old@x.com"} |-> UserRow(1, "old@x.com", "olduser", sha256(p), "")] :
      p \in {"pw1"} }

NoResponse == [op |-> "", status |-> "", error |-> "", user |-> ""]
Response(op, status, error, user) ==
    [op |-> op, status |-> status, error |-> error, user |-> user]

\* lines 464-555
login(email, password, salt) ==
    LET user == UserByEmail(users, email) IN
    IF user = NoUser
    THEN /\ resp' = Response("login", "form", "user not found", "")
         /\ UNCHANGED <<users, held>>
    ELSE
    LET is_valid == verify_password(password, user.salt, user.hashed_password)
        upgrade == /\ ~is_valid
                   /\ user.salt = ""
                   /\ sha256(password) = user.hashed_password
    IN
    /\ users' = IF upgrade
                THEN [users EXCEPT ![email].salt = salt,
                                   ![email].hashed_password = hash_password(password, salt)]
                ELSE users
    /\ IF is_valid \/ upgrade
       THEN /\ held' = [token |-> create_access_token(
                                     AppClaims(user.email, user.id, user.username, now), now),
                        issued |-> TRUE, logged_out |-> FALSE,
                        claims |-> AppClaims(user.email, user.id, user.username, now),
                        t0 |-> now]
            /\ resp' = Response("login", "redirect", "", user.email)
       ELSE /\ resp' = Response("login", "form", "wrong password", "")
            /\ UNCHANGED held

Login(email, password, salt) ==
    /\ login(email, password, salt)
    /\ UNCHANGED <<now, ticks, cities, procs, decoded, stale, call>>

\* a registration that stores the unsalted digest and an empty salt
register_unsalted(email, username, password, salt) ==
    IF UserByEmail(users, email) # NoUser
    THEN /\ resp' = Response("register", "form", "email already registered", "")
         /\ UNCHANGED <<users, held>>
    ELSE IF \E e \in DOMAIN users : users[e].username = username
    THEN /\ resp' = Response("register", "exception", "", "")
         /\ UNCHANGED <<users, held>>
    ELSE
    LET db_user == UserRow(NextUserId(users), email, username,
                           hash_password(password, ""), "")
        token_data == AppClaims(email, db_user.id, username, now)
    IN
    /\ users' = AddUser(users, db_user)
    /\ held' = [token |-> create_access_token(token_data, now),
                issued |-> TRUE, logged_out |-> FALSE,
                claims |-> token_data, t0 |-> now]
    /\ resp' = Response("register", "redirect", "", email)

\* a registration that replaces the credential of the row that has the
\* email and signs the caller in
register_overwrite(email, username, password, salt) ==
    IF UserByEmail(users, email) # NoUser
    THEN LET user == UserByEmail(users, email)
             token_data == AppClaims(email, user.id, user.username, now)
         IN
         /\ users' = [users EXCEPT ![email].salt = salt,
                                   ![email].hashed_password = hash_password(password, salt)]
         /\ held' = [token |-> create_access_token(token_data, now),
                     issued |-> TRUE, logged_out |-> FALSE,
                     claims |-> token_data, t0 |-> now]
         /\ resp' = Response("register", "redirect", "", email)
    ELSE IF \E e \in DOMAIN users : users[e].username = username
    THEN /\ resp' = Response("register", "exception", "", "")
         /\ UNCHANGED <<users, held>>
    ELSE
    LET db_user == UserRow(NextUserId(users), email, username,
                           hash_password(password, salt), salt)
        token_data == AppClaims(email, db_user.id, username, now)
    IN
    /\ users' = AddUser(users, db_user)
    /\ held' = [token |-> create_access_token(token_data, now),
                issued |-> TRUE, logged_out |-> FALSE,
                claims |-> token_data, t0 |-> now]
    /\ resp' = Response("register", "redirect", "", email)

\* lines 373-456; the insert of a username that another row has violates
\* the unique constraint and the exception leaves the handler
register(email, username, password, salt) ==
    IF UserByEmail(users, email) # NoUser
    THEN /\ resp' = Response("register", "form", "email already registered", "")
         /\ UNCHANGED <<users, held>>
    ELSE IF \E e \in DOMAIN users : users[e].username = username
    THEN /\ resp' = Response("register", "exception", "", "")
         /\ UNCHANGED <<users, held>>
    ELSE
    LET db_user == UserRow(NextUserId(users), email, username,
                           hash_password(password, salt), salt)
        token_data == AppClaims(email, db_user.id, username, now)
    IN
    /\ users' = AddUser(users, db_user)
    /\ held' = [token |-> create_access_token(token_data, now),
                issued |-> TRUE, logged_out |-> FALSE,
                claims |-> token_data, t0 |-> now]
    /\ resp' = Response("register", "redirect", "", email)

Register(email, username, password, salt) ==
    /\ register(email, username, password, salt)
    /\ UNCHANGED <<now, ticks, cities, procs, decoded, stale, call>>

\* lines 558-564: the response asks the client to delete the cookies and
\* the server changes nothing; the client discards the token or keeps it
Logout(discard) ==
    /\ held' = IF discard THEN NoCookie ELSE [held EXCEPT !.logged_out = TRUE]
    /\ resp' = Response("logout", "redirect", "", "")
    /\ UNCHANGED <<now, ticks, users, cities, procs, decoded, stale, call>>

\* lines 337-365: the home page resolves the cookie to a user
Home ==
    /\ LET current_user == get_current_user(held.token, users, now) IN
       resp' = IF current_user.exc THEN Response("home", "exception", "", "")
               ELSE Response("home", "page", "", current_user.val.email)
    /\ UNCHANGED <<now, ticks, users, cities, procs, held, decoded, stale, call>>

InitAuth ==
    /\ now = 0
    /\ ticks = 0
    /\ users \in { on_startup(t, s) : t \in LegacyTables, s \in Salts }
    /\ cities = <<>>
    /\ procs = <<>>
    /\ resp = NoResponse
    /\ held = NoCookie
    /\ decoded = NotDecoded
    /\ stale = NotChecked
    /\ call = NoCall

\* between requests the clock advances by half the token lifetime or by one
\* second more
AuthTickSteps == {900, 901}

AuthTick(d) ==
    /\ ticks < MaxAuthTicks
    /\ now' = now + d
    /\ ticks' = ticks + 1
    /\ UNCHANGED <<users, cities, procs, resp, held, decoded, stale, call>>

NextAuth ==
    \/ \E e \in Emails, p \in Passwords, s \in Salts : Login(e, p, s)
    \/ \E e \in Emails, u \in Usernames, p \in Passwords, s \in Salts :
          Register(e, u, p, s)
    \/ \E discard \in BOOLEAN : Logout(discard)
    \/ Home
    \/ \E d \in AuthTickSteps : AuthTick(d)

SpecAuth == InitAuth /\ [][NextAuth]_vars

(***************************************************************************)
(* Claims about login (SpecAuth)                                           *)
(***************************************************************************)
\* C1 (as stated): when a user whose stored credential has an empty salt and
\* the legacy digest of password p logs in with p and the login succeeds,
\* the stored credential afterwards has a non-empty salt and no longer
\* verifies under the legacy (empty salt) path for p.
C1_LegacyUpgradeOnLogin ==
    [][\A e \in Emails, p \in Passwords :
         ( /\ e \in DOMAIN users
           /\ users[e].salt = ""
           /\ users[e].hashed_password = sha256(p)
           /\ \E s \in Salts : Login(e, p, s)
           /\ resp'.status = "redirect" )
         => ( /\ users'[e].salt # ""
              /\ ~verify_password(p, "", users'[e].hashed_password) )]_vars

(***************************************************************************)
(* Claims about verify_password (SpecVerify)                               *)
(***************************************************************************)
\* C14: verify_password is true exactly when the stored digest is not empty
\* and is the digest hash_password gives for the password and the salt,
\* empty salt included; so it accepts hash_password's own output, rejects
\* the digest of any other password, and rejects the empty digest.
C14_VerifyAgreesWithHash ==
    (call.fn = "verify" /\ call.done) =>
        /\ call.out = (/\ call.stored_hash # EmptyDigest
                       /\ call.stored_hash = hash_password(call.password, call.salt))
        /\ call.stored_hash = hash_password(call.password, call.salt) => call.out
        /\ (\E q \in VerifyPasswords \ {call.password} :
               call.stored_hash = hash_password(q, call.salt)) => ~call.out
        /\ call.stored_hash = EmptyDigest => ~call.out

C14_Witness ==
    /\ call.fn = "verify"
    /\ call.done
    /\ call.out
    /\ call.salt # ""
    /\ call.stored_hash = hash_password(call.password, call.salt)

(***************************************************************************)
(* Claims about the authentication handlers (SpecAuth)                     *)
(***************************************************************************)
\* a login with this email and password fails in the current state: no user
\* has the email, or the password does not verify against the user's row
LoginFails(email, password) ==
    \/ email \notin DOMAIN users
    \/ /\ email \in DOMAIN users
       /\ ~verify_password(password, users[email].salt, users[email].hashed_password)
       /\ ~(users[email].salt = "" /\ sha256(password) = users[email].hashed_password)

\* C12 (as stated): a failed login answers the same whether the email is of
\* no user or the password is wrong: the step of any failed login is also
\* the step of every other login that fails in the same state.
C12_FailureIndistinguishable ==
    [][\A e1 \in Emails, e2 \in Emails, p1 \in Passwords, p2 \in Passwords, s \in Salts :
         (Login(e1, p1, s) /\ resp'.status = "form" /\ LoginFails(e2, p2))
            => Login(e2, p2, s)]_vars

\* the email in the claims of the held token
HeldSub == held.claims.f["sub"].s

\* C17: resolving a token depends only on the token string, the clock and
\* the user table: the home page requested with a token that login or
\* register issued resolves to its user, whether or not a logout was
\* answered since, as long as the expiry has not passed, and to no user
\* after it.
C17_StatelessSessions ==
    [][(Home /\ held.issued) =>
          /\ now <= held.t0 + 1800 =>
                (resp'.status = "page" /\ resp'.user = HeldSub)
          /\ now > held.t0 + 1800 =>
                (resp'.status = "page" /\ resp'.user = "")]_vars

C17_Witness ==
    /\ resp.op = "home"
    /\ resp.status = "page"
    /\ held.issued
    /\ held.logged_out
    /\ resp.user = HeldSub
    /\ now > held.t0
    /\ now <= held.t0 + 1800

\* the stored credential of the row verifies for this password under the
\* row's own salt
CredentialVerifies(row, password) ==
    verify_password(password, row.salt, row.hashed_password)

\* every stored credential verifies for the password it was made from, the
\* test user of the startup has a salted credential of "test123", and an
\* empty salt goes with the legacy digest only
CredentialsVerifiable ==
    /\ \A e \in DOMAIN users :
          /\ CredentialVerifies(users[e], users[e].hashed_password.p)
          /\ users[e].salt = "" <=> users[e].hashed_password.alg = "sha256"
    /\ "test@test.com" \in DOMAIN users
    /\ users["test@test.com"].salt # ""
    /\ CredentialVerifies(users["test@test.com"], "test123")

\* every row a step adds or rewrites is the row of a registration or a login
\* with some password, has a non-empty salt and verifies for that password
NewCredentialsSalted ==
    \A e \in Emails :
        ( \/ e \notin DOMAIN users /\ e \in DOMAIN users'
          \/ e \in DOMAIN users /\ e \in DOMAIN users' /\ users'[e] # users[e] )
        => /\ users'[e].salt # ""
           /\ \E p \in Passwords :
                 /\ \/ \E u \in Usernames, s \in Salts : Register(e, u, p, s)
                    \/ \E s \in Salts : Login(e, p, s)
                 /\ CredentialVerifies(users'[e], p)

\* C15: after any sequence of startup, register and login every stored
\* credential verifies against its owner's password under its own salt, and
\* every credential the application creates or rewrites has a non-empty
\* salt: the unsalted scheme never produces a new credential.
C15_CredentialInvariant ==
    []CredentialsVerifiable /\ [][NewCredentialsSalted]_vars

C15_Witness ==
    /\ "new@x.com" \in DOMAIN users
    /\ users["new@x.com"].salt # ""
    /\ CredentialVerifies(users["new@x.com"], "pw1")
    /\ "old@x.com" \in DOMAIN users
    /\ users["old@x.com"].salt = ""
    /\ resp.op = "login"
    /\ resp.status = "redirect"
    /\ resp.user = "old@x.com"

(***************************************************************************)
(* The weather fetcher (src/main.py 189-209).  The coordinates only fill   *)
(* the URL; what comes back is the network's choice: a transport failure   *)
(* (timeout, connection error) or a status with a body text.               *)
(***************************************************************************)
Http(kind, status, body) == [kind |-> kind, status |-> status, body |-> body]

WeatherBody(v) ==
    JsonText(Dict([k \in {"current_weather"} |-> Dict([j \in {"temperature"} |-> v])]))

HttpOutcomes ==
    { Http("timeout", 0, NotJson),
      Http("http", 500, NotJson),
      Http("http", 200, NotJson),
      Http("http", 200, JsonText(Dict(<<>>))),
      Http("http", 200, JsonText(Dict([k \in {"current_weather"} |-> Dict(<<>>)]))),
      Http("http", 200, WeatherBody(Num(22))),
      Http("http", 200, WeatherBody(None)),
      Http("http", 200, WeatherBody(Str("n/a"))) }

fetch_weather_for_coordinates(http) ==
    IF http.kind # "http" THEN Raise ELSE
    IF http.status # 200 THEN Raise ELSE
    LET parsed == json_loads(http.body) IN
    IF parsed.exc THEN Raise ELSE
    LET data == parsed.val IN
    IF data.t # "dict" THEN Raise ELSE
    IF "current_weather" \notin DOMAIN data.f THEN Raise ELSE
    LET current_weather == data.f["current_weather"] IN
    IF current_weather.t # "dict" THEN Raise ELSE
    IF "temperature" \notin DOMAIN current_weather.f THEN Raise
    ELSE Return(current_weather.f["temperature"])

\* what an awaited fetch can end with
FetchResults == { fetch_weather_for_coordinates(h) : h \in HttpOutcomes }

(***************************************************************************)
(* SpecFetch: fetch_weather_for_coordinates applied to every answer drawn  *)
(* from FetchInputs: a transport failure, or one of FetchStatuses with one *)
(* of FetchBodies.                                                         *)
(***************************************************************************)
FetchStatuses == {200, 201, 204, 301, 404, 429, 500, 503}

\* what the API can put where the temperature is expected
TemperatureValues ==
    { Num(0 - 5), Num(0), Num(22), None, Str("n/a"), Str("22.5"),
      List([i \in {"0"} |-> Num(22)]), Dict([k \in {"value"} |-> Num(22)]) }

\* what the API can put where the current weather is expected
CurrentWeatherValues ==
    { None, Num(1), Str("temperature"), List([i \in {"0"} |-> Str("temperature")]),
      Dict(<<>>), Dict([k \in {"windspeed"} |-> Num(3)]) }
    \cup { Dict([k \in {"temperature"} |-> v]) : v \in TemperatureValues }
    \cup { Dict([k \in {"temperature", "windspeed"} |-> v]) : v \in TemperatureValues }

FetchBodies ==
    { NotJson, JsonText(None), JsonText(Num(1)), JsonText(Str("current_weather")),
      JsonText(List([i \in {"0"} |-> Str("current_weather")])),
      JsonText(Dict(<<>>)), JsonText(Dict([k \in {"error"} |-> Str("reason")])) }
    \cup { JsonText(Dict([k \in {"current_weather"} |-> v])) : v \in CurrentWeatherValues }

FetchInputs ==
    { Http("timeout", 0, NotJson), Http("connection error", 0, NotJson) }
    \cup { Http("http", st, body) : st \in FetchStatuses, body \in FetchBodies }

NotFetched(http) == [fn |-> "fetch", done |-> FALSE, http |-> http, out |-> Raise]

Fetch ==
    /\ call.fn = "fetch"
    /\ ~call.done
    /\ call' = [call EXCEPT !.done = TRUE,
                            !.out = fetch_weather_for_coordinates(call.http)]
    /\ UNCHANGED <<now, ticks, users, cities, procs, resp, held, decoded, stale>>

InitFetch ==
    /\ now = 0
    /\ ticks = 0
    /\ users = <<>>
    /\ cities = <<>>
    /\ procs = <<>>
    /\ resp = <<>>
    /\ held = NoCookie
    /\ decoded = NotDecoded
    /\ stale = NotChecked
    /\ call \in { NotFetched(h) : h \in FetchInputs }

NextFetch == Fetch

SpecFetch == InitFetch /\ [][NextFetch]_vars

(***************************************************************************)
(* The city store (src/main.py 77-85).  cities maps the ids that have a    *)
(* row to the row; user_id 0 is NULL, a public city.                       *)
(***************************************************************************)
MaxCityId == 3

CityNames == {"Moscow", "London"}

CityRow(name, user_id, temperature, updated_at) ==
    [name |-> name, user_id |-> user_id,
     temperature |-> temperature, updated_at |-> updated_at]

\* the rowid SQLite gives a new row: one more than the largest in the table
NextCityId(table) ==
    IF DOMAIN table = {} THEN 1
    ELSE (CHOOSE m \in DOMAIN table : \A i \in DOMAIN table : i <= m) + 1

\* the ids in S in ascending order
RECURSIVE Ascending(_)
Ascending(S) ==
    IF S = {} THEN <<>>
    ELSE LET m == CHOOSE x \in S : \A y \in S : x <= y
         IN <<m>> \o Ascending(S \ {m})

\* the Float column takes a number or NULL; the bind of any other value
\* raises when the session is flushed
Storable(v) == v.t \in {"none", "num"}

\* db.commit(): every changed row is updated by id; the flush raises if a
\* value cannot be bound or if a row to update is gone
CommitRaises(table, dirty) ==
    \E id \in DOMAIN dirty :
        \/ id \notin DOMAIN table
        \/ ~Storable(dirty[id].temperature)

Commit(table, dirty) ==
    [id \in DOMAIN table |->
        IF id \in DOMAIN dirty
        THEN [table[id] EXCEPT !.temperature = dirty[id].temperature,
                               !.updated_at = dirty[id].updated_at]
        ELSE table[id]]

(***************************************************************************)
(* Request handlers that await the fetcher are suspended at the await:     *)
(* procs holds, per slot, the handler waiting there with its local state.  *)
(* One refresh awaits at a time; add_city, remove_city and the clock run    *)
(* while it does.                                                          *)
(***************************************************************************)
Slots == {1}

Idle == [pc |-> "idle", city |-> 0, user |-> 0, todo |-> <<>>, i |-> 0,
         dirty |-> <<>>, updated_count |-> 0]

\* the response of the refresh request that ended in the last step: the
\* handler, its outcome, the city_id and temperature of a single refresh, the
\* count of a batch refresh, and what raised the exception an error response
\* reports; the redirects of add_city and remove_city are not recorded
CityResponse(op, status, city, updated, temperature, error) ==
    [op |-> op, status |-> status, city |-> city, updated |-> updated,
     temperature |-> temperature, error |-> error]
NoCityResponse == CityResponse("", "", 0, 0, None, "")

\* the two registered users of the city specification
CityUsers ==
    AddUser(on_startup(<<>>, "s1"),
            UserRow(2, "new@x.com", "newuser", hash_password("pw1", "s2"), "s2"))

\* the token login issues to the user with this email at time t0
TokenOf(email, t0) ==
    create_access_token(
        AppClaims(CityUsers[email].email, CityUsers[email].id,
                  CityUsers[email].username, t0), t0)

\* cookies a request can carry: none, a token whose JSON is a list, the
\* token of either user issued now, and a token of the test user issued
\* more than the token lifetime ago
CookieInputs(clock) ==
    { AbsentCookie, b64encode(JsonText(List([i \in {"0"} |-> Num(1)]))),
      TokenOf("test@test.com", clock), TokenOf("new@x.com", clock),
      TokenOf("test@test.com", clock - 1801) }

\* the cookies of the requests that add cities: none, and the test user's
OwnerCookies(clock) == { AbsentCookie, TokenOf("test@test.com", clock) }

\* the cookies of the requests that remove cities: none, the owner's and
\* another user's
RemoveCookies(clock) ==
    { AbsentCookie, TokenOf("test@test.com", clock), TokenOf("new@x.com", clock) }

\* a single refresh that awaits the fetch only for a city can_update_city
\* accepts
SingleStart_gated(p, city_id) ==
    /\ procs[p].pc = "idle"
    /\ IF city_id \notin DOMAIN cities
       THEN /\ resp' = CityResponse("single", "not found", 0, 0, None, "")
            /\ UNCHANGED procs
       ELSE IF ~can_update_city(cities[city_id], now)
       THEN /\ resp' = CityResponse("single", "failure", 0, 0, None, "fresh")
            /\ UNCHANGED procs
       ELSE /\ procs' = [procs EXCEPT ![p] = [Idle EXCEPT !.pc = "single",
                                                          !.city = city_id]]
            /\ resp' = NoCityResponse
    /\ UNCHANGED <<now, ticks, users, cities, held, decoded, stale, call>>

\* lines 213-225: the city is looked up and the fetch awaited
SingleStart(p, city_id) ==
    /\ procs[p].pc = "idle"
    /\ IF city_id \notin DOMAIN cities
       THEN /\ resp' = CityResponse("single", "not found", 0, 0, None, "")
            /\ UNCHANGED procs
       ELSE /\ procs' = [procs EXCEPT ![p] = [Idle EXCEPT !.pc = "single",
                                                          !.city = city_id]]
            /\ resp' = NoCityResponse
    /\ UNCHANGED <<now, ticks, users, cities, held, decoded, stale, call>>

\* a refresh that stores the temperature and leaves updated_at as it was
update_city_weather_api_untimed(p, fetched) ==
    LET city_id == procs[p].city IN
    IF fetched.exc \/ city_id \notin DOMAIN cities \/ ~Storable(fetched.val)
    THEN /\ resp' = CityResponse("single", "failure", 0, 0, None, "fetch")
         /\ UNCHANGED cities
    ELSE /\ cities' = [cities EXCEPT ![city_id].temperature = fetched.val]
         /\ resp' = CityResponse("single", "success", city_id, 0, fetched.val, "")

\* a refresh that stamps updated_at before it awaits the fetch, so that a
\* failed fetch leaves the new timestamp behind
update_city_weather_api_stamped(p, fetched) ==
    LET city_id == procs[p].city IN
    IF city_id \notin DOMAIN cities \/ (~fetched.exc /\ ~Storable(fetched.val))
    THEN /\ resp' = CityResponse("single", "failure", 0, 0, None, "commit")
         /\ UNCHANGED cities
    ELSE IF fetched.exc
    THEN /\ resp' = CityResponse("single", "failure", 0, 0, None, "fetch")
         /\ cities' = [cities EXCEPT ![city_id].updated_at = DateTime(now)]
    ELSE /\ cities' = [cities EXCEPT ![city_id].temperature = fetched.val,
                                     ![city_id].updated_at = DateTime(now)]
         /\ resp' = CityResponse("single", "success", city_id, 0, fetched.val, "")

\* lines 227-253: the fetch has ended
update_city_weather_api(p, fetched) ==
    LET city_id == procs[p].city
        dirty == [id \in {city_id} |->
                     [temperature |-> fetched.val, updated_at |-> DateTime(now)]]
    IN
    IF fetched.exc
    THEN /\ resp' = CityResponse("single", "failure", 0, 0, None, "fetch")
         /\ UNCHANGED cities
    ELSE IF CommitRaises(cities, dirty)
    THEN /\ resp' = CityResponse("single", "failure", 0, 0, None, "commit")
         /\ UNCHANGED cities
    ELSE /\ cities' = Commit(cities, dirty)
         /\ resp' = CityResponse("single", "success", city_id, 0, fetched.val, "")

SingleDone(p, fetched) ==
    /\ procs[p].pc = "single"
    /\ update_city_weather_api(p, fetched)
    /\ procs' = [procs EXCEPT ![p] = Idle]
    /\ UNCHANGED <<now, ticks, users, held, decoded, stale, call>>

\* a partition that leaves out the cities a batch in flight has selected
CitiesToUpdate_dedup(table, user_id, clock) ==
    Ascending({ id \in DOMAIN table :
                  /\ table[id].user_id = user_id
                  /\ can_update_city(table[id], clock)
                  /\ \A q \in DOMAIN procs :
                        \A k \in 1..Len(procs[q].todo) : procs[q].todo[k] # id })

\* a partition that takes every city of the user, whatever its age
CitiesToUpdate_all(table, user_id, clock) ==
    Ascending({ id \in DOMAIN table : table[id].user_id = user_id })

\* line 583
CitiesToUpdate(table, user_id, clock) ==
    Ascending({ id \in DOMAIN table :
                  table[id].user_id = user_id /\ can_update_city(table[id], clock) })

\* lines 573-594: authorisation and the partition into cities to update
BatchStart(p, cookie) ==
    /\ procs[p].pc = "idle"
    /\ LET current_user == get_current_user(cookie, users, now) IN
       IF current_user.exc
       THEN /\ resp' = CityResponse("batch", "exception", 0, 0, None, "")
            /\ UNCHANGED procs
       ELSE IF current_user.val = NoUser
       THEN /\ resp' = CityResponse("batch", "login", 0, 0, None, "")
            /\ UNCHANGED procs
       ELSE LET cities_to_update == CitiesToUpdate(cities, current_user.val.id, now) IN
            IF cities_to_update = <<>>
            THEN /\ resp' = CityResponse("batch", "nothing to update", 0, 0, None, "")
                 /\ UNCHANGED procs
            ELSE /\ procs' = [procs EXCEPT ![p] =
                                 [Idle EXCEPT !.pc = "batch",
                                              !.user = current_user.val.id,
                                              !.todo = cities_to_update,
                                              !.i = 1]]
                 /\ resp' = NoCityResponse
    /\ UNCHANGED <<now, ticks, users, cities, held, decoded, stale, call>>

\* lines 597-605: one turn of the loop, after the fetch for todo[i] has ended
LoopTurn(proc, fetched, clock) ==
    LET city_id == proc.todo[proc.i]
    IN
    IF fetched.exc THEN [proc EXCEPT !.i = proc.i + 1]
    ELSE [proc EXCEPT
            !.i = proc.i + 1,
            !.dirty = [id \in DOMAIN proc.dirty \cup {city_id} |->
                          IF id = city_id
                          THEN [temperature |-> fetched.val, updated_at |-> DateTime(clock)]
                          ELSE proc.dirty[id]],
            !.updated_count = proc.updated_count + 1]

\* lines 597-632: a fetch of the loop has ended; after the last one the
\* session is committed, and an exception of the commit rolls it back
update_weather(p, fetched) ==
    LET after == LoopTurn(procs[p], fetched, now) IN
    IF after.i <= Len(after.todo)
    THEN /\ procs' = [procs EXCEPT ![p] = after]
         /\ resp' = NoCityResponse
         /\ UNCHANGED cities
    ELSE /\ procs' = [procs EXCEPT ![p] = Idle]
         /\ IF CommitRaises(cities, after.dirty)
            THEN /\ resp' = CityResponse("batch", "error", 0, 0, None, "commit")
                 /\ UNCHANGED cities
            ELSE /\ cities' = Commit(cities, after.dirty)
                 /\ resp' = CityResponse("batch", "success", 0, after.updated_count, None, "")

BatchFetched(p, fetched) ==
    /\ procs[p].pc = "batch"
    /\ update_weather(p, fetched)
    /\ UNCHANGED <<now, ticks, users, held, decoded, stale, call>>

\* an add_city that inserts the city without looking for one of the same
\* name
add_city_unchecked(cookie, name) ==
    LET current_user == get_current_user(cookie, users, now) IN
    IF current_user.exc THEN UNCHANGED cities
    ELSE IF current_user.val = NoUser THEN UNCHANGED cities
    ELSE /\ NextCityId(cities) <= MaxCityId
         /\ cities' = [id \in DOMAIN cities \cup {NextCityId(cities)} |->
                          IF id \in DOMAIN cities THEN cities[id]
                          ELSE CityRow(name, current_user.val.id, None, None)]

\* lines 635-678: the request of a user without a session and the request
\* that raises change nothing; a name the user already has is not added
add_city(cookie, name) ==
    LET current_user == get_current_user(cookie, users, now) IN
    IF current_user.exc THEN UNCHANGED cities
    ELSE IF current_user.val = NoUser THEN UNCHANGED cities
    ELSE IF \E id \in DOMAIN cities :
               cities[id].name = name /\ cities[id].user_id = current_user.val.id
    THEN UNCHANGED cities
    ELSE /\ NextCityId(cities) <= MaxCityId
         /\ cities' = [id \in DOMAIN cities \cup {NextCityId(cities)} |->
                          IF id \in DOMAIN cities THEN cities[id]
                          ELSE CityRow(name, current_user.val.id, None, None)]

AddCity(cookie, name) ==
    /\ add_city(cookie, name)
    /\ resp' = NoCityResponse
    /\ UNCHANGED <<now, ticks, users, procs, held, decoded, stale, call>>

\* lines 681-708: only a city of the user of the session is deleted
remove_city(cookie, city_id) ==
    LET current_user == get_current_user(cookie, users, now) IN
    IF current_user.exc THEN UNCHANGED cities
    ELSE IF current_user.val = NoUser THEN UNCHANGED cities
    ELSE IF city_id \in DOMAIN cities /\ cities[city_id].user_id = current_user.val.id
    THEN cities' = [id \in DOMAIN cities \ {city_id} |-> cities[id]]
    ELSE UNCHANGED cities

RemoveCity(cookie, city_id) ==
    /\ remove_city(cookie, city_id)
    /\ resp' = NoCityResponse
    /\ UNCHANGED <<now, ticks, users, procs, held, decoded, stale, call>>

\* lines 744-764: the public test cities of an empty table, none fetched yet
InitCities ==
    /\ now = 0
    /\ ticks = 0
    /\ users = CityUsers
    /\ cities = [id \in {1} |-> CityRow("Moscow", 0, None, None)]
    /\ procs = [p \in Slots |-> Idle]
    /\ resp = NoCityResponse
    /\ held = NoCookie
    /\ decoded = NotDecoded
    /\ stale = NotChecked
    /\ call = NoCall

\* between steps the clock advances by the refresh interval or by one second
\* less
CityTickSteps == {899, 900}

CityTick(d) ==
    /\ ticks < MaxCityTicks
    /\ now' = now + d
    /\ ticks' = ticks + 1
    /\ resp' = NoCityResponse
    /\ UNCHANGED <<users, cities, procs, held, decoded, stale, call>>

NextCities ==
    \/ \E p \in Slots, id \in 1..MaxCityId : SingleStart(p, id)
    \/ \E p \in Slots, r \in FetchResults : SingleDone(p, r)
    \/ \E p \in Slots, c \in CookieInputs(now) : BatchStart(p, c)
    \/ \E p \in Slots, r \in FetchResults : BatchFetched(p, r)
    \/ \E c \in OwnerCookies(now), n \in CityNames : AddCity(c, n)
    \/ \E c \in RemoveCookies(now), id \in 1..MaxCityId : RemoveCity(c, id)
    \/ \E d \in CityTickSteps : CityTick(d)

SpecCities == InitCities /\ [][NextCities]_vars

(***************************************************************************)
(* SpecRace: two batch refreshes of the test user in flight at once, with  *)
(* add_city and the clock between their steps.                             *)
(***************************************************************************)
RaceSlots == {1, 2}

InitRace ==
    /\ now = 0
    /\ ticks = 0
    /\ users = CityUsers
    /\ cities = [id \in {1} |-> CityRow("Moscow", 0, None, None)]
    /\ procs = [p \in RaceSlots |-> Idle]
    /\ resp = NoCityResponse
    /\ held = NoCookie
    /\ decoded = NotDecoded
    /\ stale = NotChecked
    /\ call = NoCall

NextRace ==
    \/ \E p \in RaceSlots, c \in OwnerCookies(now) : BatchStart(p, c)
    \/ \E p \in RaceSlots, r \in FetchResults : BatchFetched(p, r)
    \/ \E c \in OwnerCookies(now), n \in CityNames : AddCity(c, n)
    \/ \E d \in CityTickSteps : CityTick(d)

SpecRace == InitRace /\ [][NextRace]_vars

(***************************************************************************)
(* Claims about decode_token and create_access_token (SpecToken)           *)
(***************************************************************************)
\* the JSON value inside a token string, None when there is none
TokenJson(token) ==
    IF token.k = "b64" /\ token.text.json THEN token.text.v ELSE None

TokenHasExpiry(token) ==
    /\ TokenJson(token).t = "dict"
    /\ "exp" \in DOMAIN TokenJson(token).f
    /\ TokenJson(token).f["exp"].t = "num"

TokenExpiry(token) == TokenJson(token).f["exp"].n

\* C3 (as stated): a token whose expiry satisfies expiry <= now, expiry = now
\* included, decodes to None, and claims come back only when expiry > now.
C3_ExpiryBoundary ==
    (decoded.called /\ TokenHasExpiry(decoded.token)) =>
        /\ TokenExpiry(decoded.token) <= decoded.at => decoded.out = Return(None)
        /\ decoded.out.val # None => TokenExpiry(decoded.token) > decoded.at

\* C4 (as stated): decode_token never raises, and a token string that is
\* empty, not base64, not JSON, JSON other than a claims record (an object),
\* or expired, decodes to None.
C4_InvalidIsNone ==
    decoded.called =>
        /\ ~decoded.out.exc
        /\ TokenJson(decoded.token).t # "dict" => decoded.out.val = None
        /\ (TokenHasExpiry(decoded.token) /\ TokenExpiry(decoded.token) < decoded.at)
              => decoded.out.val = None

\* what decode_token gives back for claims c issued at t0: c with its
\* datetime values printed, and the expiry added under "exp"
IssuedClaims(c, t0) ==
    Dict([k \in DOMAIN c.f \cup {"exp"} |->
            IF k = "exp" THEN Num(t0 + 1800)
            ELSE IF c.f[k].t = "datetime" THEN IsoStr(c.f[k].n)
            ELSE c.f[k]])

DecodedHeldIssued ==
    decoded.called /\ held.issued /\ decoded.token = held.token

StaysInvalid ==
    (decoded.called /\ decoded.out = Return(None)) =>
        \A d \in {0, 1, 899, 900, 1800, 1801} :
            decode_token(decoded.token, now + d) = Return(None)

\* a decode of the token string of the decode before it, which gave None,
\* gives None
InvalidAgain ==
    ( /\ decoded.called
      /\ decoded'.called
      /\ decoded'.token = decoded.token
      /\ decoded'.at >= decoded.at
      /\ decoded.out = Return(None) )
    => decoded'.out = Return(None)

\* C16: with a clock that does not go back, once decode_token has returned
\* None for a token string it returns None for that string at every later
\* time: a token never goes back from expired or malformed to valid.
C16_TokenMonotone ==
    []StaysInvalid /\ [][InvalidAgain]_vars

C16_Witness ==
    /\ decoded.called
    /\ decoded.out = Return(None)
    /\ decoded.token = held.token
    /\ TokenHasExpiry(decoded.token)
    /\ decoded.at > TokenExpiry(decoded.token) + 1

\* C20 (as stated): every token string that decode_token accepts, giving
\* back a claims record, carries an expiry, and decode_token gives None for
\* it at every time after that expiry.
C20_AcceptedTokensExpire ==
    (decoded.called /\ decoded.out.val.t = "dict" /\ Truthy(decoded.out.val)) =>
        /\ TokenHasExpiry(decoded.token)
        /\ \A d \in {1, 2, 900, 1800} :
              decode_token(decoded.token, TokenExpiry(decoded.token) + d) = Return(None)

(***************************************************************************)
(* Claims about can_update_city (SpecStale)                                *)
(***************************************************************************)
\* C9: can_update_city is true exactly when the last update is absent or the
\* whole minutes since it are at least the interval; with the interval of 15
\* it is false 14 minutes after the update and true 15 minutes after it.
C9_StalenessPolicy ==
    stale.called =>
        /\ stale.out = (\/ stale.updated_at = None
                        \/ (stale.at - stale.updated_at.n) \div 60 >= 15)
        /\ (stale.updated_at # None /\ stale.at - stale.updated_at.n = 14 * 60)
              => ~stale.out
        /\ (stale.updated_at # None /\ stale.at - stale.updated_at.n = 15 * 60)
              => stale.out

C9_Witness ==
    /\ stale.called
    /\ stale.updated_at # None
    /\ stale.at - stale.updated_at.n = 900
    /\ stale.out

(***************************************************************************)
(* Claims about the refresh handlers and the city store (SpecCities)       *)
(***************************************************************************)
\* the fetch of this HTTP outcome returned a number
ReturnsReading(fetched) == ~fetched.exc /\ fetched.val.t = "num"

\* the ids a batch has gone through
Attempted(proc) == { proc.todo[k] : k \in 1..Len(proc.todo) }

\* C2 (as stated): when a batch refresh ends, every eligible city was
\* attempted, the attempted are the succeeded plus the failed, every stored
\* city whose fetch returned a reading has that reading and its timestamp,
\* and every city whose fetch failed is as it was.
C2_BatchIsolation ==
    [][\A p \in Slots, r \in FetchResults :
         (BatchFetched(p, r) /\ procs'[p].pc = "idle") =>
            LET after == LoopTurn(procs[p], r, now)
                succeeded == DOMAIN after.dirty
                failed == Attempted(after) \ DOMAIN after.dirty
            IN
            /\ after.i = Len(after.todo) + 1
            /\ after.updated_count = Cardinality(succeeded)
            /\ Len(after.todo) = Cardinality(succeeded) + Cardinality(failed)
            /\ \A id \in succeeded \cap DOMAIN cities :
                  after.dirty[id].temperature.t = "num" =>
                     /\ cities'[id].temperature = after.dirty[id].temperature
                     /\ cities'[id].updated_at = after.dirty[id].updated_at
            /\ \A id \in failed \cap DOMAIN cities :
                  cities'[id] = cities[id]]_vars

\* C6 (as stated): in every reachable state every city has a temperature if
\* and only if it has a time of last update.
C6_ReadingTimestampPaired ==
    \A id \in DOMAIN cities :
        (cities[id].temperature # None) <=> (cities[id].updated_at # None)

\* C7: when the fetch of a single refresh returns the reading r for a stored
\* city, whether or not it was updated before, the refresh leaves the city
\* with temperature r and updated_at equal to the current time, and responds
\* with success, the city and r.
C7_SingleSuccess ==
    [][\A p \in Slots, h \in HttpOutcomes :
         LET r == fetch_weather_for_coordinates(h)
             city_id == procs[p].city
         IN (SingleDone(p, r) /\ ReturnsReading(r) /\ city_id \in DOMAIN cities) =>
               /\ cities'[city_id].temperature = r.val
               /\ cities'[city_id].updated_at = DateTime(now)
               /\ \A id \in DOMAIN cities \ {city_id} : cities'[id] = cities[id]
               /\ resp' = CityResponse("single", "success", city_id, 0, r.val, "")]_vars

C7_Witness ==
    /\ resp.op = "single"
    /\ resp.status = "success"
    /\ resp.temperature = Num(22)
    /\ resp.city \in DOMAIN cities
    /\ cities[resp.city].temperature = Num(22)
    /\ cities[resp.city].updated_at = DateTime(now)
    /\ now > 0

\* C8: when the fetch of a single refresh fails (transport failure, status
\* other than 200, body that is not JSON or lacks the temperature), the
\* refresh changes no city and responds with a failure that carries the
\* cause; it does not raise.
C8_SingleFailure ==
    [][\A p \in Slots, h \in HttpOutcomes :
         LET r == fetch_weather_for_coordinates(h)
         IN (SingleDone(p, r) /\ r.exc) =>
               /\ cities' = cities
               /\ resp' = CityResponse("single", "failure", 0, 0, None, "fetch")]_vars

C8_Witness ==
    /\ resp.op = "single"
    /\ resp.status = "failure"
    /\ resp.error = "fetch"
    /\ \E id \in DOMAIN cities :
          /\ cities[id].temperature = Num(22)
          /\ cities[id].updated_at # None
          /\ cities[id].updated_at.n < now

\* C10: the cities a batch refresh fetches are fixed when it partitions the
\* user's cities; each of them is a city of the user that can_update_city
\* accepts at that time, the loop goes through them and no other, and the
\* batch changes no city outside them.
C10_StalenessGate ==
    [][\A p \in Slots :
         /\ (procs[p].pc = "idle" /\ procs'[p].pc = "batch") =>
               \A id \in Attempted(procs'[p]) :
                  /\ id \in DOMAIN cities
                  /\ cities[id].user_id = procs'[p].user
                  /\ \/ cities[id].updated_at = None
                     \/ now - cities[id].updated_at.n >= UPDATE_INTERVAL_MINUTES * 60
         /\ (procs[p].pc = "batch" /\ procs'[p].pc = "batch") =>
               /\ procs'[p].todo = procs[p].todo
               /\ procs'[p].i \in {procs[p].i, procs[p].i + 1}
               /\ DOMAIN procs'[p].dirty \subseteq Attempted(procs[p])
         /\ (procs[p].pc = "batch" /\ \E r \in FetchResults : BatchFetched(p, r)) =>
               \A id \in DOMAIN cities \ Attempted(procs[p]) :
                  id \in DOMAIN cities' /\ cities'[id] = cities[id]]_vars

C10_Witness ==
    /\ resp.op = "batch"
    /\ resp.status = "success"
    /\ resp.updated = 1
    /\ \E a, b \in DOMAIN cities :
          /\ cities[a].user_id = 1
          /\ cities[b].user_id = 1
          /\ cities[a].updated_at = DateTime(now)
          /\ cities[b].updated_at # None
          /\ cities[b].updated_at.n < now
          /\ now - cities[b].updated_at.n < UPDATE_INTERVAL_MINUTES * 60

\* C11 (as stated): a batch refresh that has fetched a reading for a city
\* that is still stored ends with a success response, whatever happened to
\* its other cities, and that city then has the reading and its timestamp:
\* the batch is never aborted or undone.
C11_BatchCompletes ==
    [][\A p \in Slots, r \in FetchResults :
         (BatchFetched(p, r) /\ procs'[p].pc = "idle") =>
            LET after == LoopTurn(procs[p], r, now)
                retained == { id \in DOMAIN after.dirty \cap DOMAIN cities :
                                after.dirty[id].temperature.t = "num" }
            IN retained # {} =>
                  /\ resp'.op = "batch"
                  /\ resp'.status = "success"
                  /\ \A id \in retained :
                        /\ cities'[id].temperature = after.dirty[id].temperature
                        /\ cities'[id].updated_at = after.dirty[id].updated_at]_vars

\* C18: the single refresh of a stored city always goes on to await the
\* fetch for it, whatever its updated_at, one younger than the interval
\* included; the batch refresh awaits fetches only for cities that
\* can_update_city accepts.
C18_SingleBypassesStaleness ==
    [][\A p \in Slots :
         /\ \A id \in DOMAIN cities :
               SingleStart(p, id) => (procs'[p].pc = "single" /\ procs'[p].city = id)
         /\ (procs[p].pc = "idle" /\ procs'[p].pc = "batch") =>
               \A id \in Attempted(procs'[p]) : can_update_city(cities[id], now)]_vars

C18_Witness ==
    \E p \in Slots :
        /\ procs[p].pc = "single"
        /\ procs[p].city \in DOMAIN cities
        /\ cities[procs[p].city].updated_at # None
        /\ now - cities[procs[p].city].updated_at.n < UPDATE_INTERVAL_MINUTES * 60
        /\ ~can_update_city(cities[procs[p].city], now)

\* C19: a batch refresh selects every city of its user that
\* can_update_city accepts, whatever another batch in flight has selected
\* and not yet committed; so two interleaved batches of one user can await
\* a fetch for the same city at the same time.
C19_NoDeduplication ==
    [][\A p \in RaceSlots :
         (procs[p].pc = "idle" /\ procs'[p].pc = "batch") =>
            Attempted(procs'[p]) =
               { id \in DOMAIN cities :
                   /\ cities[id].user_id = procs'[p].user
                   /\ can_update_city(cities[id], now) }]_vars

C19_Witness ==
    /\ procs[1].pc = "batch"
    /\ procs[2].pc = "batch"
    /\ procs[1].user = procs[2].user
    /\ procs[1].todo[procs[1].i] = procs[2].todo[procs[2].i]
    /\ procs[1].dirty = <<>>
    /\ procs[2].dirty = <<>>

(***************************************************************************)
(* Claims about fetch_weather_for_coordinates (SpecFetch)                  *)
(***************************************************************************)
\* the answer has status 200 and a JSON body with a numeric
\* current_weather.temperature
HasNumericTemperature(http) ==
    /\ http.kind = "http"
    /\ http.status = 200
    /\ http.body.json
    /\ http.body.v.t = "dict"
    /\ "current_weather" \in DOMAIN http.body.v.f
    /\ http.body.v.f["current_weather"].t = "dict"
    /\ "temperature" \in DOMAIN http.body.v.f["current_weather"].f
    /\ http.body.v.f["current_weather"].f["temperature"].t = "num"

\* C13 (as stated): the fetch returns a reading only for status 200 with a
\* body whose current temperature is a number, and then that number; every
\* other status, transport failure and body (temperature missing, null or a
\* string) makes it raise.
C13_FetchSuccessCondition ==
    (call.fn = "fetch" /\ call.done) =>
        /\ ~call.out.exc <=> HasNumericTemperature(call.http)
        /\ ~call.out.exc =>
              call.out.val = call.http.body.v.f["current_weather"].f["temperature"]

(***************************************************************************)
(* SpecResolve: get_current_user applied to every access_token cookie      *)
(* drawn from ResolveCookies, at every clock value of ResolveClocks and    *)
(* over every user table of ResolveTables.                                 *)
(***************************************************************************)
ResolveClocks == {0, 1, 1800, 1801}

ResolveTables == { on_startup(t, "s1") : t \in LegacyTables }

\* what a client can put under "sub": the email of a user, of no user, the
\* empty string, null, a number and a list
SubValues ==
    { Str("test@test.com"), Str("old@x.com"), Str("nobody@x.com"), Str(""),
      None, Num(5), List([i \in {"0"} |-> Str("test@test.com")]) }

\* the cookie is absent, empty, not base64, not JSON, JSON that is not an
\* object, an object with or without "sub" and "exp", or a token the
\* application issued at time 0
ResolveCookies ==
    {AbsentCookie}
    \cup TokenInputs(1800)
    \cup { b64encode(JsonText(Dict([k \in {"sub"} |-> v]))) : v \in SubValues }
    \cup { b64encode(JsonText(Dict([k \in {"sub", "exp"} |->
                                      IF k = "sub" THEN v ELSE Num(1800)]))) :
           v \in SubValues }
    \cup { create_access_token(AppClaims(e, 1, "testuser", 0), 0) :
           e \in {"test@test.com", "nobody@x.com"} }

NotResolved(token) ==
    [fn |-> "resolve", done |-> FALSE, token |-> token, out |-> Return(NoUser)]

Resolve ==
    /\ call.fn = "resolve"
    /\ ~call.done
    /\ call' = [call EXCEPT !.done = TRUE,
                            !.out = get_current_user(call.token, users, now)]
    /\ UNCHANGED <<now, ticks, users, cities, procs, resp, held, decoded, stale>>

InitResolve ==
    /\ now \in ResolveClocks
    /\ ticks = 0
    /\ users \in ResolveTables
    /\ cities = <<>>
    /\ procs = <<>>
    /\ resp = NoResponse
    /\ held = NoCookie
    /\ decoded = NotDecoded
    /\ stale = NotChecked
    /\ call \in { NotResolved(t) : t \in ResolveCookies }

NextResolve == Resolve

SpecResolve == InitResolve /\ [][NextResolve]_vars

(***************************************************************************)
(* Claims about get_current_user (SpecResolve)                             *)
(***************************************************************************)
\* C22 (as stated): get_current_user is total: for every value of the
\* access_token cookie (absent, empty, malformed, expired, JSON that is not
\* an object, claims without sub or naming an unknown email) it returns a
\* stored user or None and never raises.
C22_ResolveTotal ==
    (call.fn = "resolve" /\ call.done) =>
        /\ ~call.out.exc
        /\ \/ call.out.val = NoUser
           \/ \E e \in DOMAIN users : users[e] = call.out.val

(***************************************************************************)
(* Claims about the ownership of cities (SpecCities)                       *)
(***************************************************************************)
\* the user the cookie resolves to: its id, 0 when there is none
ResolvesTo(cookie) ==
    LET current_user == get_current_user(cookie, users, now) IN
    IF current_user.exc THEN 0 ELSE current_user.val.id

\* the step ends a request made for this user: a batch refresh that was
\* started with a cookie resolving to the user, or an add_city or
\* remove_city whose cookie resolves to the user
RequestOf(user_id) ==
    \/ \E p \in Slots, r \in FetchResults :
          /\ procs[p].user = user_id
          /\ BatchFetched(p, r)
    \/ \E c \in OwnerCookies(now), n \in CityNames :
          /\ ResolvesTo(c) = user_id
          /\ AddCity(c, n)
    \/ \E c \in RemoveCookies(now), id \in 1..MaxCityId :
          /\ ResolvesTo(c) = user_id
          /\ RemoveCity(c, id)

\* C21 (as stated): a city row owned by a user (its temperature, updated_at
\* or existence) is changed only by a request that carries a valid token
\* resolving to that user; a request with no valid token, or with a token of
\* another user, changes no city of the user.
C21_OwnerOnlyMutation ==
    [][\A id \in 1..MaxCityId :
         /\ ( /\ id \in DOMAIN cities
              /\ cities[id].user_id # 0
              /\ (id \notin DOMAIN cities' \/ cities'[id] # cities[id]) )
            => RequestOf(cities[id].user_id)
         /\ ( /\ id \notin DOMAIN cities
              /\ id \in DOMAIN cities'
              /\ cities'[id].user_id # 0 )
            => RequestOf(cities'[id].user_id)]_vars

(***************************************************************************)
(* Claims about register (SpecAuth)                                        *)
(***************************************************************************)
\* every row is stored under its own email, and no two rows have the same
\* email or the same id
EmailsUnique ==
    \A e1 \in DOMAIN users, e2 \in DOMAIN users :
        /\ users[e1].email = e1
        /\ (users[e1].email = users[e2].email \/ users[e1].id = users[e2].id)
              => users[e1] = users[e2]

\* a register request whose email has a row changes no row, answers with
\* the form and its error, and leaves the client's cookie as it was
DuplicateRejected ==
    \A e \in Emails, u \in Usernames, p \in Passwords, s \in Salts :
        (e \in DOMAIN users /\ Register(e, u, p, s))
           => /\ users' = users
              /\ held' = held
              /\ resp'.status = "form"
              /\ resp'.user = ""

\* C23: after any sequence of register requests no two users share an
\* email, and a register request whose email already exists leaves the user
\* store unchanged (the existing credential is not overwritten) and issues
\* no session token.
C23_DuplicateRegistration ==
    []EmailsUnique /\ [][DuplicateRejected]_vars

\* a second registration of new@x.com was answered with the form while the
\* row of the first registration is stored
C23_Witness ==
    /\ resp.op = "register"
    /\ resp.status = "form"
    /\ resp.error = "email already registered"
    /\ "new@x.com" \in DOMAIN users
    /\ users["new@x.com"].username = "newuser"
    /\ Cardinality(DOMAIN users) = 3

(***************************************************************************)
(* SpecNames: add_city and remove_city requests of both users, of a client *)
(* without a session and of clients with an expired or malformed token,    *)
(* with the redirect of each add_city recorded.                            *)
(***************************************************************************)
\* the names of the form field: string comparison tells "Moscow" and
\* "moscow" apart
AddNames == CityNames \cup {"moscow"}

\* lines 649-678: where add_city redirects to
add_city_redirect(cookie, name) ==
    LET current_user == get_current_user(cookie, users, now) IN
    IF current_user.exc THEN "exception"
    ELSE IF current_user.val = NoUser THEN "login"
    ELSE IF \E id \in DOMAIN cities :
               cities[id].name = name /\ cities[id].user_id = current_user.val.id
    THEN "exists"
    ELSE "added"

NamesAdd(cookie, name) ==
    /\ add_city(cookie, name)
    /\ resp' = CityResponse("add", add_city_redirect(cookie, name), 0, 0, None, "")
    /\ UNCHANGED <<now, ticks, users, procs, held, decoded, stale, call>>

InitNames ==
    /\ now = 0
    /\ ticks = 0
    /\ users = CityUsers
    /\ cities = [id \in {1} |-> CityRow("Moscow", 0, None, None)]
    /\ procs = [p \in Slots |-> Idle]
    /\ resp = NoCityResponse
    /\ held = NoCookie
    /\ decoded = NotDecoded
    /\ stale = NotChecked
    /\ call = NoCall

NextNames ==
    \/ \E c \in CookieInputs(now), n \in AddNames : NamesAdd(c, n)
    \/ \E c \in CookieInputs(now), id \in 1..MaxCityId : RemoveCity(c, id)
    \/ \E d \in CityTickSteps : CityTick(d)

SpecNames == InitNames /\ [][NextNames]_vars

(***************************************************************************)
(* Claims about add_city and remove_city (SpecNames)                       *)
(***************************************************************************)
\* the user has a city of this name
Owns(user_id, name) ==
    \E id \in DOMAIN cities :
        cities[id].user_id = user_id /\ cities[id].name = name

\* no user has two cities of the same name
NamesUnique ==
    \A i \in DOMAIN cities, j \in DOMAIN cities :
        ( /\ cities[i].user_id # 0
          /\ cities[i].user_id = cities[j].user_id
          /\ cities[i].name = cities[j].name ) => i = j

\* an add_city request of a user for a name the user has a city of changes
\* no city
DuplicateAddIgnored ==
    \A c \in CookieInputs(now), n \in AddNames :
        ( /\ ResolvesTo(c) # 0
          /\ Owns(ResolvesTo(c), n)
          /\ NamesAdd(c, n) ) => cities' = cities

\* C24: after any sequence of add_city and remove_city requests by any
\* users no user owns two cities with the same name, and an add_city request
\* for a name the user already owns leaves the city store unchanged.
C24_CityNamesUnique ==
    []NamesUnique /\ [][DuplicateAddIgnored]_vars

\* both users own a city named Moscow, and the last request, an add_city for
\* a name its user has, was sent back with the error
C24_Witness ==
    /\ resp.op = "add"
    /\ resp.status = "exists"
    /\ Owns(1, "Moscow")
    /\ Owns(2, "Moscow")

====
